---- MODULE Spec2Model ----
(***************************************************************************)
(* A model of builder.py: the distribution registry, the template-context  *)
(* builder, the renderer and the command handlers that drive the container *)
(* engine.                                                                 *)
(*                                                                         *)
(* Python strings are sequences of tokens (a token is a run of characters  *)
(* the program never splits); concatenation is \o.  Python values kept in  *)
(* a context are tagged: Str(tokens), Num(n), NoneV.  A dict with string   *)
(* keys is a function on a set of strings.  Every operation that can raise *)
(* returns a record whose err field names the exception ("" = returned).   *)
(***************************************************************************)
EXTENDS Integers, Sequences, FiniteSets, TLC

VARIABLES
    fs,        \* the output tree under PROJECT_DIR: [dirs, files]
    before,    \* fs as it was when the last command started
    cmd,       \* the last command line main() dispatched
    calls,     \* the external steps of the last command, in order
    result,    \* "" when the last command returned, else the exception
    ctxIn,     \* get_template_context under test: the distro and the kwargs
    ctxOut,    \* ... and what it returned or raised
    registry,  \* Distro.registry: [keys (insertion order), val]
    history,   \* every Distro.__init__ so far, in order
    looked     \* the last Distro.get: the name asked and the outcome

vars == <<fs, before, cmd, calls, result, ctxIn, ctxOut,
          registry, history, looked>>

\* ------------------------------------------------------------------ bounds
MaxRegistrations == 3

\* --------------------------------------------------------- python values
Str(s) == [t |-> "str", s |-> s]
Num(n) == [t |-> "int", n |-> n]
NoneV == [t |-> "none"]

\* a one-token string, or '' for the empty token
Tok(a) == IF a = "" THEN <<>> ELSE <<a>>
S(a) == Str(Tok(a))

\* bool(v) as `if v:` and `not v` take it
Truthy(v) ==
    CASE v.t = "none" -> FALSE
      [] v.t = "str" -> v.s # <<>>
      [] v.t = "int" -> v.n # 0

\* dict.get(k): None when k is no key
Get(d, k) == IF k \in DOMAIN d THEN d[k] ELSE NoneV

\* dict.update(upd): upd's values win
Update(d, upd) ==
    [k \in (DOMAIN d) \cup (DOMAIN upd) |->
        IF k \in DOMAIN upd THEN upd[k] ELSE d[k]]

EmptyDict == [k \in {} |-> NoneV]

Ok(v) == [err |-> "", val |-> v]
Raise(e) == [err |-> e, val |-> NoneV]

\* the key a per-architecture table is indexed with: the architecture name
IsArchKey(v) == v.t = "str" /\ Len(v.s) = 1
HasKey(table, v) == IsArchKey(v) /\ v.s[1] \in DOMAIN table
Lookup(table, v) == table[v.s[1]]

\* ------------------------------------------------------------- slugify
NonWord == {":", ".", " ", "/", "-", ", "}

Lower(tok) ==
    CASE tok = "Debian" -> "debian"
      [] tok = "Alpine" -> "alpine"
      [] OTHER -> tok

\* re.sub(r'[^\w]', '-', string).lower()
slugify(string) ==
    [i \in 1..Len(string) |->
        IF string[i] \in NonWord THEN "-" ELSE Lower(string[i])]

\* ---------------------------------------------------------------- paths
\* path.Path.__truediv__, i.e. os.path.join(a, b)
PathJoin(a, b) ==
    IF b # <<>> /\ b[1] = "/" THEN b
    ELSE IF a = <<>> \/ a[Len(a)] = "/" THEN a \o b
    ELSE a \o <<"/">> \o b

RECURSIVE LastSlash(_, _)
LastSlash(p, i) ==
    IF i = 0 THEN 0 ELSE IF p[i] = "/" THEN i ELSE LastSlash(p, i - 1)

\* os.path.dirname
DirName(p) ==
    LET i == LastSlash(p, Len(p)) IN
    IF i = 0 THEN <<>> ELSE IF i = 1 THEN <<"/">> ELSE SubSeq(p, 1, i - 1)

\* p and every directory above it, as os.makedirs creates them
RECURSIVE Ancestors(_)
Ancestors(p) ==
    IF p = <<>> \/ p = <<"/">> THEN {} ELSE {p} \cup Ancestors(DirName(p))

IsPrefix(p, q) == Len(p) <= Len(q) /\ SubSeq(q, 1, Len(p)) = p
\* q is p or lies below directory p
Under(p, q) == q = p \/ IsPrefix(p \o <<"/">>, q)

\* ------------------------------------------------ class DebianLike tables
DebianLike_template_path == <<"debian-like">>
DebianLike_host_archs ==
    <<"amd64", "i386", "arm32v7", "arm64v8", "ppc64le", "s390x">>
DebianLike_client_archs ==
    <<"amd64", "i386", "arm32v7", "arm64v8", "ppc64le", "s390x">>
DebianLike_compilers_by_host_arch ==
    [amd64 |-> <<"amd64", "i386", "arm32v7", "arm64v8", "ppc64le", "s390x">>,
     i386 |-> <<"amd64", "i386", "arm64v8", "ppc64le">>,
     arm32v7 |-> <<"arm32v7">>,
     arm64v8 |-> <<"amd64", "i386", "arm64v8">>,
     ppc64le |-> <<"amd64", "i386", "arm64v8", "ppc64le">>,
     s390x |-> <<"s390x">>]
DebianLike_packages_by_arch ==
    [amd64 |-> <<"gcc-x86-64-linux-gnu g++-x86-64-linux-gnu binutils-x86-64-linux-gnu">>,
     i386 |-> <<"gcc-i686-linux-gnu g++-i686-linux-gnu binutils-i686-linux-gnu">>,
     arm32v7 |-> <<"gcc-arm-linux-gnueabihf g++-arm-linux-gnueabihf binutils-arm-linux-gnueabihf">>,
     arm64v8 |-> <<"gcc-aarch64-linux-gnu g++-aarch64-linux-gnu binutils-aarch64-linux-gnu">>,
     ppc64le |-> <<"gcc-powerpc64le-linux-gnu g++-powerpc64le-linux-gnu binutils-powerpc64le-linux-gnu">>,
     s390x |-> <<"gcc-s390x-linux-gnu g++-s390x-linux-gnu binutils-s390x-linux-gnu">>]
\* the port table with the s390x entry forgotten
DebianLike_ports_by_arch_NoS390x ==
    [i386 |-> 3603, amd64 |-> 3604, arm32v7 |-> 3607, arm64v8 |-> 3608,
     ppc64le |-> 3610]
DebianLike_ports_by_arch ==
    [i386 |-> 3603, amd64 |-> 3604, arm32v7 |-> 3607, arm64v8 |-> 3608,
     s390x |-> 3609, ppc64le |-> 3610]
DebianLike_toolchains_by_arch ==
    [amd64 |-> <<"x86_64-linux-gnu">>,
     i386 |-> <<"i686-linux-gnu">>,
     ppc64le |-> <<"powerpc64le-linux-gnu">>,
     s390x |-> <<"s390x-linux-gnu">>,
     arm32v7 |-> <<"arm-linux-gnueabihf">>,
     arm64v8 |-> <<"aarch64-linux-gnu">>]
DebianLike_flags_by_arch ==
    [amd64 |-> <<"START_DISTCC_X86_64_LINUX_GNU">>,
     i386 |-> <<"START_DISTCC_I686_LINUX_GNU">>,
     ppc64le |-> <<"START_DISTCC_PPC64LE_LINUX_GNU">>,
     s390x |-> <<"START_DISTCC_S390X_LINUX_GNU">>,
     arm32v7 |-> <<"START_DISTCC_ARM_LINUX_GNUEABIHF">>,
     arm64v8 |-> <<"START_DISTCC_AARCH64_LINUX_GNU">>]

\* --------------------------------------------- class ArchLinuxLike tables
ArchLinuxLike_template_path == <<"archlinux-like">>
ArchLinuxLike_host_archs == <<"amd64">>
ArchLinuxLike_client_archs ==
    <<"amd64", "arm32v5", "arm32v6", "arm32v7", "arm64v8">>
ArchLinuxLike_compilers_by_host_arch ==
    [amd64 |-> <<"amd64", "arm32v5", "arm32v6", "arm32v7", "arm64v8">>]
ArchLinuxLike_ports_by_arch ==
    [amd64 |-> 3704, arm32v5 |-> 3705, arm32v6 |-> 3706, arm32v7 |-> 3707,
     arm64v8 |-> 3708]
ArchLinuxLike_images_by_arch ==
    [amd64 |-> <<"archlinux:20200908">>,
     arm32v5 |-> <<"lopsided/archlinux@sha256:66b26a83a39e26e2a390b5b92105f80e6042d0db79ee22b1f57d169307b87a58">>,
     arm32v6 |-> <<"lopsided/archlinux@sha256:109729d4d863e14fed6faa1437f0eaee8133b26c310079c8294a4c7db6dbebb5">>,
     arm32v7 |-> <<"lopsided/archlinux@sha256:fbf2d806f207a2e9a5400bd20672b80ca318a2e59fc56c1c0f90b4e9adb60f4a">>,
     arm64v8 |-> <<"lopsided/archlinux@sha256:f9d68dd73a85b587539e04ef26b18d91b243bee8e1a343ad97f67183f275e548">>]
ArchLinuxLike_toolchains_by_arch ==
    [arm32v5 |-> <<"/", "toolchains", "/", "x-tools", "/", "arm-unknown-linux-gnueabi">>,
     arm32v6 |-> <<"/", "toolchains", "/", "x-tools6h", "/", "arm-unknown-linux-gnueabihf">>,
     arm32v7 |-> <<"/", "toolchains", "/", "x-tools7h", "/", "arm-unknown-linux-gnueabihf">>,
     arm64v8 |-> <<"/", "toolchains", "/", "x-tools8", "/", "aarch64-unknown-linux-gnu">>]

\* ------------------------------------------- attribute lookup on a Distro
\* a Distro object: [cls, name, id]; id tells two objects of one name apart
IsDebian(d) == d.cls = "DebianLike"

template_path(d) ==
    IF IsDebian(d) THEN DebianLike_template_path ELSE ArchLinuxLike_template_path
host_archs(d) ==
    IF IsDebian(d) THEN DebianLike_host_archs ELSE ArchLinuxLike_host_archs
client_archs(d) ==
    IF IsDebian(d) THEN DebianLike_client_archs ELSE ArchLinuxLike_client_archs
compilers_by_host_arch(d) ==
    IF IsDebian(d) THEN DebianLike_compilers_by_host_arch
    ELSE ArchLinuxLike_compilers_by_host_arch
ports_by_arch(d) ==
    IF IsDebian(d) THEN DebianLike_ports_by_arch ELSE ArchLinuxLike_ports_by_arch
toolchains_by_arch(d) ==
    IF IsDebian(d) THEN DebianLike_toolchains_by_arch
    ELSE ArchLinuxLike_toolchains_by_arch

\* Distro.out_path
out_path(d) == slugify(d.name)

Range(seq) == {seq[i] : i \in 1..Len(seq)}

\* ---------------------------------------------------- context building
\* DebianLike.get_apt_packages_by_host_arch; host_arch is a key of the table
RECURSIVE AptPackagesFrom(_, _)
AptPackagesFrom(compilers, i) ==
    IF i > Len(compilers) THEN <<>>
    ELSE <<" ">> \o DebianLike_packages_by_arch[compilers[i]]
         \o AptPackagesFrom(compilers, i + 1)

get_apt_packages_by_host_arch(host_arch) ==
    IF ~HasKey(DebianLike_compilers_by_host_arch, host_arch) THEN Raise("KeyError")
    ELSE LET compilers == Lookup(DebianLike_compilers_by_host_arch, host_arch) IN
         IF \E a \in Range(compilers) : a \notin DOMAIN DebianLike_packages_by_arch
         THEN Raise("KeyError")
         ELSE Ok(Str(<<"build-essential g++ distcc">> \o AptPackagesFrom(compilers, 1)))

\* the path part without the same-architecture case
DebianLike_get_compiler_path_part_NoSameArch(host_arch, compiler_arch) ==
    IF ~HasKey(DebianLike_toolchains_by_arch, compiler_arch) THEN Raise("KeyError")
    ELSE Ok(Str(PathJoin(PathJoin(<<"/", "usr", "/", "local", "/">>,
                                   Lookup(DebianLike_toolchains_by_arch, compiler_arch)),
                         <<"bin:">>)))

DebianLike_get_compiler_path_part_by_arch(host_arch, compiler_arch) ==
    IF host_arch = compiler_arch THEN Ok(Str(<<>>))
    ELSE IF ~HasKey(DebianLike_toolchains_by_arch, compiler_arch) THEN Raise("KeyError")
    ELSE Ok(Str(PathJoin(PathJoin(<<"/", "usr", "/", "local", "/">>,
                                   Lookup(DebianLike_toolchains_by_arch, compiler_arch)),
                         <<"bin:">>)))

ArchLinuxLike_get_compiler_path_part_by_arch(host_arch, client_arch) ==
    IF host_arch = client_arch THEN Ok(Str(<<>>))
    ELSE IF ~HasKey(ArchLinuxLike_toolchains_by_arch, client_arch) THEN Raise("KeyError")
    ELSE Ok(Str(PathJoin(Lookup(ArchLinuxLike_toolchains_by_arch, client_arch),
                         <<"bin:">>)))

get_compiler_path_part_by_arch(d, host_arch, client_arch) ==
    IF IsDebian(d) THEN DebianLike_get_compiler_path_part_by_arch(host_arch, client_arch)
    ELSE ArchLinuxLike_get_compiler_path_part_by_arch(host_arch, client_arch)

\* dict.get on a per-architecture table
TableGet(table, v) == IF HasKey(table, v) THEN Str(Lookup(table, v)) ELSE NoneV

\* Distro.get_template_context with the port looked up by host_arch
Distro_get_template_context_PortByHost(d, context) ==
    LET with_path(c, p) ==
            IF p.err # "" THEN p ELSE Ok(Update(c, [compiler_path_part |-> p.val]))
        with_port(c, host_arch, client_arch) ==
            IF ~Truthy(host_arch) THEN Ok(c)
            ELSE with_path(c, get_compiler_path_part_by_arch(d, host_arch, client_arch))
        for_archs(c, host_arch, client_arch) ==
            IF ~Truthy(client_arch) THEN Ok(c)
            ELSE IF ~HasKey(ports_by_arch(d), (IF Truthy(host_arch) THEN host_arch ELSE client_arch)) THEN Raise("KeyError")
            ELSE with_port(
                   Update(c, [host_port |-> Num(Lookup(ports_by_arch(d), (IF Truthy(host_arch) THEN host_arch ELSE client_arch))),
                              toolchain |-> TableGet(toolchains_by_arch(d), client_arch)]),
                   host_arch, client_arch)
        with_tag(c) == for_archs(c, Get(c, "host_arch"), Get(c, "client_arch"))
        with_names(c) ==
            with_tag(IF ~Truthy(Get(c, "tag")) THEN Update(c, [tag |-> S("devel")]) ELSE c)
    IN  with_names(Update(context, [distro |-> Str(d.name),
                                    distro_slug |-> Str(slugify(d.name))]))

\* Distro.get_template_context with dict(distro=..., distro_slug=..., **context)
Distro_get_template_context_CallerWins(d, context) ==
    LET with_path(c, p) ==
            IF p.err # "" THEN p ELSE Ok(Update(c, [compiler_path_part |-> p.val]))
        with_port(c, host_arch, client_arch) ==
            IF ~Truthy(host_arch) THEN Ok(c)
            ELSE with_path(c, get_compiler_path_part_by_arch(d, host_arch, client_arch))
        for_archs(c, host_arch, client_arch) ==
            IF ~Truthy(client_arch) THEN Ok(c)
            ELSE IF ~HasKey(ports_by_arch(d), client_arch) THEN Raise("KeyError")
            ELSE with_port(
                   Update(c, [host_port |-> Num(Lookup(ports_by_arch(d), client_arch)),
                              toolchain |-> TableGet(toolchains_by_arch(d), client_arch)]),
                   host_arch, client_arch)
        with_tag(c) == for_archs(c, Get(c, "host_arch"), Get(c, "client_arch"))
        with_names(c) ==
            with_tag(IF ~Truthy(Get(c, "tag")) THEN Update(c, [tag |-> S("devel")]) ELSE c)
    IN  with_names(Update([distro |-> Str(d.name),
                           distro_slug |-> Str(slugify(d.name))], context))

\* Distro.get_template_context(**context)
Distro_get_template_context(d, context) ==
    LET with_path(c, p) ==
            IF p.err # "" THEN p ELSE Ok(Update(c, [compiler_path_part |-> p.val]))
        with_port(c, host_arch, client_arch) ==
            IF ~Truthy(host_arch) THEN Ok(c)
            ELSE with_path(c, get_compiler_path_part_by_arch(d, host_arch, client_arch))
        for_archs(c, host_arch, client_arch) ==
            IF ~Truthy(client_arch) THEN Ok(c)
            ELSE IF ~HasKey(ports_by_arch(d), client_arch) THEN Raise("KeyError")
            ELSE with_port(
                   Update(c, [host_port |-> Num(Lookup(ports_by_arch(d), client_arch)),
                              toolchain |-> TableGet(toolchains_by_arch(d), client_arch)]),
                   host_arch, client_arch)
        with_tag(c) == for_archs(c, Get(c, "host_arch"), Get(c, "client_arch"))
        with_names(c) ==
            with_tag(IF ~Truthy(Get(c, "tag")) THEN Update(c, [tag |-> S("devel")]) ELSE c)
    IN  with_names(Update(context, [distro |-> Str(d.name),
                                    distro_slug |-> Str(slugify(d.name))]))

DebianLike_get_template_context(d, context) ==
    LET with_packages(c, pk) ==
            IF pk.err # "" THEN pk ELSE Ok(Update(c, [packages |-> pk.val]))
        with_flag(c, host_arch) ==
            IF ~Truthy(host_arch) THEN Ok(c)
            ELSE with_packages(c, get_apt_packages_by_host_arch(host_arch))
        extend(c, host_arch, client_arch) ==
            IF ~Truthy(client_arch) THEN with_flag(c, host_arch)
            ELSE IF ~HasKey(DebianLike_flags_by_arch, client_arch) THEN Raise("KeyError")
            ELSE with_flag(Update(c, [flag |-> Str(Lookup(DebianLike_flags_by_arch,
                                                          client_arch))]),
                           host_arch)
        from_base(base) ==
            IF base.err # "" THEN base
            ELSE extend(base.val, Get(base.val, "host_arch"), Get(base.val, "client_arch"))
    IN  from_base(Distro_get_template_context(d, context))

ArchLinuxLike_get_template_context(d, context) ==
    LET with_host_image(c, host_arch) ==
            IF ~Truthy(host_arch) THEN Ok(c)
            ELSE IF ~HasKey(ArchLinuxLike_images_by_arch, host_arch) THEN Raise("KeyError")
            ELSE Ok(Update(c, [host_image |-> Str(Lookup(ArchLinuxLike_images_by_arch,
                                                         host_arch))]))
        extend(c, host_arch, client_arch) ==
            IF ~Truthy(client_arch) THEN with_host_image(c, host_arch)
            ELSE IF ~HasKey(ArchLinuxLike_images_by_arch, client_arch)
            THEN Raise("KeyError")
            ELSE with_host_image(
                   Update(c, [client_image |-> Str(Lookup(ArchLinuxLike_images_by_arch,
                                                          client_arch)),
                              toolchain |-> TableGet(ArchLinuxLike_toolchains_by_arch,
                                                     client_arch)]),
                   host_arch)
        from_base(base) ==
            IF base.err # "" THEN base
            ELSE extend(base.val, Get(base.val, "host_arch"), Get(base.val, "client_arch"))
    IN  from_base(Distro_get_template_context(d, context))

\* the method the object's class resolves get_template_context to
get_template_context(d, context) ==
    IF IsDebian(d) THEN DebianLike_get_template_context(d, context)
    ELSE ArchLinuxLike_get_template_context(d, context)

\* ------------------------------------------------------------- registry
EmptyRegistry == [keys |-> <<>>, val |-> [n \in {} |-> NoneV]]

\* Distro.__init__ with registry.setdefault(name, self)
Distro__init__FirstWins(reg, cls, name, id) ==
    LET self == [cls |-> cls, name |-> name, id |-> id] IN
    [keys |-> IF name \in DOMAIN reg.val THEN reg.keys ELSE Append(reg.keys, name),
     val |-> [n \in (DOMAIN reg.val) \cup {name} |->
                 IF n \in DOMAIN reg.val THEN reg.val[n] ELSE self]]

\* Distro.__init__: self.registry[name] = self (a dict keeps a key's first place)
Distro__init__(reg, cls, name, id) ==
    LET self == [cls |-> cls, name |-> name, id |-> id] IN
    [keys |-> IF name \in DOMAIN reg.val THEN reg.keys ELSE Append(reg.keys, name),
     val |-> [n \in (DOMAIN reg.val) \cup {name} |->
                 IF n = name THEN self ELSE reg.val[n]]]

\* ', '.join(names)
RECURSIVE JoinFrom(_, _)
JoinFrom(names, i) ==
    IF i > Len(names) THEN <<>>
    ELSE (IF i > 1 THEN <<", ">> ELSE <<>>) \o names[i] \o JoinFrom(names, i + 1)

\* Distro.get; reg is the class dict as the call leaves it
Distro_get(reg, name) ==
    IF name \notin DOMAIN reg.val
    THEN [err |-> "ValueError",
          val |-> Str(<<"Unsupported distro ">> \o name \o <<", choose from ">>
                      \o JoinFrom(reg.keys, 1)),
          reg |-> reg]
    ELSE [err |-> "", val |-> reg.val[name], reg |-> reg]

\* registry.values()
RegistryValues(reg) == [i \in 1..Len(reg.keys) |-> reg.val[reg.keys[i]]]

\* the registry once the module is imported
ModuleRegistry ==
    Distro__init__(Distro__init__(EmptyRegistry, "DebianLike",
                                  <<"debian", ":", "buster">>, 1),
                   "ArchLinuxLike", <<"archlinux">>, 2)

\* ------------------------------------------------------------- renderer
EmptyFS == [dirs |-> {}, files |-> [p \in {} |-> NoneV]]

Exists(f, p) == p \in f.dirs \/ p \in DOMAIN f.files

WriteFile(f, p, content) ==
    [dirs |-> f.dirs, files |-> (p :> content) @@ f.files]

MakeDirs(f, p) == [dirs |-> f.dirs \cup Ancestors(p), files |-> f.files]

\* the keys a template names in braces; the templates are data files of the
\* repository, known here only by what the rendered files must embed
Placeholders(template) ==
    IF template[Len(template)] = "docker-compose.template.yml"
    THEN {"host_port", "tag"} ELSE {}

\* render(template, out, context)
render(f, template, out, context) ==
    IF ~(Placeholders(template) \subseteq DOMAIN context) THEN [err |-> "KeyError", fs |-> f]
    ELSE LET rendered == [template |-> template, context |-> context]
             dir_name == DirName(out)
         IN  IF dir_name = <<>> THEN [err |-> "FileNotFoundError", fs |-> f]
             ELSE LET f1 == IF ~Exists(f, dir_name) THEN MakeDirs(f, dir_name) ELSE f IN
                  IF out \in f1.dirs THEN [err |-> "IsADirectoryError", fs |-> f1]
                  ELSE [err |-> "", fs |-> WriteFile(f1, out, rendered)]

\* shutil.copytree(src, dst): the copied tree is one entry naming its source
copytree(f, src, dst) ==
    IF Exists(f, dst) THEN [err |-> "FileExistsError", fs |-> f]
    ELSE [err |-> "",
          fs |-> WriteFile(MakeDirs(f, dst), PathJoin(dst, <<"*">>),
                           [template |-> src, context |-> EmptyDict])]

\* shutil.rmtree(path)
rmtree(f, path) ==
    IF path \notin f.dirs THEN [err |-> "FileNotFoundError", fs |-> f]
    ELSE [err |-> "",
          fs |-> [dirs |-> {q \in f.dirs : ~Under(path, q)},
                  files |-> [q \in {r \in DOMAIN f.files : ~Under(path, r)} |->
                                f.files[q]]]]

\* ----------------------------------------------- the steps of Distro.render
RECURSIVE Flatten(_, _)
Flatten(seqs, i) == IF i > Len(seqs) THEN <<>> ELSE seqs[i] \o Flatten(seqs, i + 1)

RenderJob(explicit, template, out) ==
    [kind |-> "render", explicit |-> explicit, template |-> template, out |-> out]
CopyJob(src, dst) ==
    [kind |-> "copytree", explicit |-> EmptyDict, template |-> src, out |-> dst]
RaiseJob(e) ==
    [kind |-> "raise", explicit |-> EmptyDict, template |-> <<e>>, out |-> <<>>]

\* Distro.docker_compose_file_path
docker_compose_file_path(d, host_arch, client_arch) ==
    PathJoin(out_path(d),
             <<"docker-compose.">> \o slugify(d.name)
             \o <<".host-", host_arch, ".client-", client_arch, ".yml">>)

render_dockerfile_host(d) ==
    [i \in 1..Len(host_archs(d)) |->
        LET host_arch == host_archs(d)[i] IN
        RenderJob([host_arch |-> S(host_arch)],
                  PathJoin(template_path(d), <<"host", "/", "Dockerfile.template">>),
                  PathJoin(PathJoin(out_path(d), <<"host">>),
                           <<"Dockerfile.", host_arch>>))]

render_dockerfile_client(d) ==
    [i \in 1..Len(client_archs(d)) |->
        LET client_arch == client_archs(d)[i] IN
        RenderJob([client_arch |-> S(client_arch)],
                  PathJoin(template_path(d), <<"client", "/", "Dockerfile.template">>),
                  PathJoin(PathJoin(out_path(d), <<"client">>),
                           <<"Dockerfile.", client_arch>>))]

render_docker_compose(d) ==
    Flatten([i \in 1..Len(host_archs(d)) |->
               [j \in 1..Len(client_archs(d)) |->
                   LET host_arch == host_archs(d)[i]
                       client_arch == client_archs(d)[j]
                   IN  RenderJob([host_arch |-> S(host_arch),
                                  client_arch |-> S(client_arch)],
                                 PathJoin(template_path(d),
                                          <<"docker-compose.template.yml">>),
                                 docker_compose_file_path(d, host_arch, client_arch))]],
            1)

\* the pairs the service-manager loops visit: for host_arch in host_archs,
\* for client_arch in compilers_by_host_arch[host_arch]
ServicePairs(d) ==
    Flatten([i \in 1..Len(host_archs(d)) |->
               LET host_arch == host_archs(d)[i] IN
               IF host_arch \notin DOMAIN compilers_by_host_arch(d)
               THEN <<[host_arch |-> host_arch, client_arch |-> "", missing |-> TRUE]>>
               ELSE [j \in 1..Len(compilers_by_host_arch(d)[host_arch]) |->
                       [host_arch |-> host_arch,
                        client_arch |-> compilers_by_host_arch(d)[host_arch][j],
                        missing |-> FALSE]]],
            1)

ServiceFile(pr) == <<"distccd.host-", pr.host_arch, ".client-", pr.client_arch>>

\* DebianLike.render_initd_distccd
render_initd_distccd(d) ==
    LET pairs == ServicePairs(d)
        one(sub, pr) ==
            RenderJob([host_arch |-> S(pr.host_arch), client_arch |-> S(pr.client_arch)],
                      PathJoin(template_path(d),
                               <<"host", "/", "build-context", "/", "etc", "/", sub, "/",
                                 "distccd.template">>),
                      PathJoin(PathJoin(out_path(d),
                                        <<"host", "/", "build-context", "/", "etc", "/", sub>>),
                               ServiceFile(pr)))
    IN  Flatten([k \in 1..Len(pairs) |->
                   IF pairs[k].missing THEN <<RaiseJob("KeyError")>>
                   ELSE <<one("default", pairs[k]), one("init.d", pairs[k]),
                          one("logrotate.d", pairs[k])>>],
                1)

\* ArchLinuxLike.render_systemd_distccd
render_systemd_distccd(d) ==
    LET pairs == ServicePairs(d)
        host_build_context_dir == PathJoin(out_path(d), <<"host", "/", "build-context">>)
        client_build_context_dir == PathJoin(out_path(d), <<"client", "/", "build-context">>)
        explicit(pr) == [host_arch |-> S(pr.host_arch), client_arch |-> S(pr.client_arch)]
    IN  Flatten([k \in 1..Len(pairs) |->
                   IF pairs[k].missing THEN <<RaiseJob("KeyError")>>
                   ELSE <<RenderJob(explicit(pairs[k]),
                             PathJoin(template_path(d),
                                      <<"host", "/", "build-context", "/", "etc", "/",
                                        "conf.d", "/", "distccd.template">>),
                             PathJoin(PathJoin(out_path(d),
                                               <<"host", "/", "build-context", "/", "etc",
                                                 "/", "conf.d">>),
                                      ServiceFile(pairs[k]))),
                          RenderJob(explicit(pairs[k]),
                             PathJoin(template_path(d),
                                      <<"host", "/", "build-context", "/", "usr", "/", "lib",
                                        "/", "systemd", "/", "system", "/",
                                        "distccd.template.service">>),
                             PathJoin(PathJoin(out_path(d),
                                               <<"host", "/", "build-context", "/", "usr",
                                                 "/", "lib", "/", "systemd", "/", "system">>),
                                      ServiceFile(pairs[k]) \o <<".service">>))>>],
                1)
        \o <<CopyJob(PathJoin(template_path(d), <<"client", "/", "scripts">>),
                     PathJoin(client_build_context_dir, <<"scripts">>)),
             CopyJob(<<"shared-build-context", "/", "client">>, client_build_context_dir),
             CopyJob(PathJoin(template_path(d), <<"host", "/", "scripts">>),
                     PathJoin(host_build_context_dir, <<"scripts">>)),
             CopyJob(<<"shared-build-context", "/", "host">>, host_build_context_dir)>>

\* Distro.render, then the family's own files (DebianLike.render,
\* ArchLinuxLike.render), as the steps they take in order
RenderJobs(d) ==
    render_dockerfile_host(d) \o render_dockerfile_client(d) \o render_docker_compose(d)
    \o (IF IsDebian(d) THEN render_initd_distccd(d) ELSE render_systemd_distccd(d))

\* f(key=value, **kwargs): a key given both ways is a TypeError at the call
CallContext(d, explicit, kwargs) ==
    IF (DOMAIN explicit) \cap (DOMAIN kwargs) # {} THEN Raise("TypeError")
    ELSE get_template_context(d, Update(kwargs, explicit))

RunJob(d, kwargs, f, job) ==
    LET with_context(c) ==
            IF c.err # "" THEN [err |-> c.err, fs |-> f]
            ELSE render(f, job.template, job.out, c.val)
    IN  CASE job.kind = "raise" -> [err |-> job.template[1], fs |-> f]
          [] job.kind = "copytree" -> copytree(f, job.template, job.out)
          [] job.kind = "render" -> with_context(CallContext(d, job.explicit, kwargs))

\* the steps jobs[lo..hi] in order, stopping at the first that raises (the
\* range is halved only to keep the evaluation shallow)
RECURSIVE RunJobs(_, _, _, _, _, _)
RunJobs(d, kwargs, f, jobs, lo, hi) ==
    LET rest(r, mid) ==
            IF r.err # "" THEN r ELSE RunJobs(d, kwargs, r.fs, jobs, mid + 1, hi)
        halves(mid) == rest(RunJobs(d, kwargs, f, jobs, lo, mid), mid)
    IN  IF lo > hi THEN [err |-> "", fs |-> f]
        ELSE IF lo = hi THEN RunJob(d, kwargs, f, jobs[lo])
        ELSE halves((lo + hi) \div 2)

\* d.render(**kwargs)
Render(d, kwargs, f) ==
    LET run(jobs) == RunJobs(d, kwargs, f, jobs, 1, Len(jobs)) IN run(RenderJobs(d))

\* Distro.clean
clean(d, f) == rmtree(f, out_path(d))

\* Distro.clean_all
RECURSIVE clean_from(_, _, _)
clean_from(distros, f, i) ==
    LET rest(r) == IF r.err # "" THEN r ELSE clean_from(distros, r.fs, i + 1) IN
    IF i > Len(distros) THEN [err |-> "", fs |-> f] ELSE rest(clean(distros[i], f))

clean_all(reg, f) == clean_from(RegistryValues(reg), f, 1)

\* ------------------------------------------------------ external engine
Event(op, args, rc) == [op |-> op, args |-> args, rc |-> rc]

\* what the machine and the engine answer to configure_qemu's calls; an answer
\* to a call that is never made is left at its first value
QemuEnvs ==
    {e \in [which : BOOLEAN, images_rc : {0, 1}, has_qemu_image : BOOLEAN,
            run_rc : {0, 1}] :
        /\ (~e.which => e.images_rc = 0)
        /\ (~e.which \/ e.images_rc # 0 => ~e.has_qemu_image)
        /\ (~e.which \/ e.images_rc # 0 \/ e.has_qemu_image => e.run_rc = 0)}
\* the exit statuses of docker pull and docker build
BuildEnvs == {e \in [pull_rc : {0, 1, 2}, build_rc : {0, 1}] :
                 e.pull_rc = 2 => e.build_rc = 0}
\* the exit statuses of docker-compose up and docker-compose run
TestEnvs == {e \in [up_rc : {0, 1}, client_rc : {0, 1}] :
                e.up_rc # 0 => e.client_rc = 0}

SettleSeconds == 5

\* configure_qemu()
configure_qemu(env) ==
    LET w == Event("which", <<<<"qemu-aarch64">>>>, IF env.which THEN 0 ELSE 1)
        im == Event("images", <<>>, env.images_rc)
        run == Event("run", <<<<"multiarch/qemu-user-static">>>>, env.run_rc)
    IN  IF ~env.which THEN [err |-> "RuntimeError", calls |-> <<w>>]
        ELSE IF env.images_rc # 0 THEN [err |-> "ErrorReturnCode", calls |-> <<w, im>>]
        ELSE IF env.has_qemu_image THEN [err |-> "", calls |-> <<w, im>>]
        ELSE IF env.run_rc # 0 THEN [err |-> "ErrorReturnCode", calls |-> <<w, im, run>>]
        ELSE [err |-> "", calls |-> <<w, im, run>>]

\* str.format of one value
FormatValue(v) ==
    CASE v.t = "str" -> v.s
      [] v.t = "int" -> <<ToString(v.n)>>
      [] v.t = "none" -> <<"None">>

\* 'elijahru/distcc-cross-compiler-<role>-{distro_slug}:{tag}-{arch}'.format(...)
ImageName(role, context, arch) ==
    <<"elijahru/distcc-cross-compiler-", role, "-">> \o FormatValue(context["distro_slug"])
    \o <<":">> \o FormatValue(context["tag"]) \o <<"-">> \o Tok(arch)

\* PullAndBuild with `except ErrorReturnCode:` in place of ErrorReturnCode_1
PullAndBuild_AnyPullFailure(env, image, build_context, dockerfile) ==
    LET pull == Event("pull", <<image>>, env.pull_rc)
        build == Event("build", <<build_context, dockerfile, image, image>>, env.build_rc)
    IN  IF env.build_rc # 0 THEN [err |-> "ErrorReturnCode", calls |-> <<pull, build>>]
        ELSE [err |-> "", calls |-> <<pull, build>>]

\* try: docker('pull', image) except ErrorReturnCode_1: pass; docker('build', ...)
PullAndBuild(env, image, build_context, dockerfile) ==
    LET pull == Event("pull", <<image>>, env.pull_rc)
        build == Event("build", <<build_context, dockerfile, image, image>>, env.build_rc)
    IN  IF env.pull_rc \notin {0, 1} THEN [err |-> "ErrorReturnCode", calls |-> <<pull>>]
        ELSE IF env.build_rc # 0 THEN [err |-> "ErrorReturnCode", calls |-> <<pull, build>>]
        ELSE [err |-> "", calls |-> <<pull, build>>]

\* UpSleepRun with the client's exit status dropped
UpSleepRun_VerdictLost(env, docker_compose_file) ==
    LET up == Event("up", <<docker_compose_file, <<"distcc-cross-compiler-host">>>>,
                    env.up_rc)
        sleep == Event("sleep", <<<<ToString(SettleSeconds)>>>>, 0)
        run == Event("compose_run",
                     <<docker_compose_file, <<"distcc-cross-compiler-client">>>>,
                     env.client_rc)
    IN  IF env.up_rc # 0 THEN [err |-> "ErrorReturnCode", calls |-> <<up>>]
        ELSE [err |-> "", calls |-> <<up, sleep, run>>]

\* docker_compose(up -d host); time.sleep(5); docker_compose(run client)
UpSleepRun(env, docker_compose_file) ==
    LET up == Event("up", <<docker_compose_file, <<"distcc-cross-compiler-host">>>>,
                    env.up_rc)
        sleep == Event("sleep", <<<<ToString(SettleSeconds)>>>>, 0)
        run == Event("compose_run",
                     <<docker_compose_file, <<"distcc-cross-compiler-client">>>>,
                     env.client_rc)
    IN  IF env.up_rc # 0 THEN [err |-> "ErrorReturnCode", calls |-> <<up>>]
        ELSE [err |-> IF env.client_rc # 0 THEN "ErrorReturnCode" ELSE "",
              calls |-> <<up, sleep, run>>]

RenderEvent(d, r) == Event("render", <<out_path(d)>>, IF r.err = "" THEN 0 ELSE 1)

\* the rest of a handler once self.render(**context) has run: r is what the
\* render left, e what the engine calls after it do
AfterRender(d, r, pre, e) ==
    LET c1 == Append(pre, RenderEvent(d, r)) IN
    IF r.err # "" THEN [err |-> r.err, calls |-> c1, fs |-> r.fs]
    ELSE [err |-> e.err, calls |-> c1 \o e.calls, fs |-> r.fs]

\* render-all: for distro in Distro.registry.values(): distro.render(tag=args.tag)
RECURSIVE render_from(_, _, _, _)
render_from(distros, tag, f, i) ==
    LET rest(r) == IF r.err # "" THEN r ELSE render_from(distros, tag, r.fs, i + 1) IN
    IF i > Len(distros) THEN [err |-> "", fs |-> f]
    ELSE rest(Render(distros[i], [tag |-> S(tag)], f))

\* ------------------------------------------------------- command lines
Tags == {"devel", "v1"}
KnownNames == {<<"debian", ":", "buster">>, <<"archlinux">>}
DistroArgs == KnownNames \cup {<<"ubuntu">>}
AllArchs == Range(DebianLike_host_archs) \cup Range(DebianLike_client_archs)
            \cup Range(ArchLinuxLike_host_archs) \cup Range(ArchLinuxLike_client_archs)
\* the architectures a command line names for a distribution: its own, and one
\* it does not know
ArchArgs(name) ==
    IF name \in DOMAIN ModuleRegistry.val
    THEN Range(host_archs(ModuleRegistry.val[name]))
         \cup Range(client_archs(ModuleRegistry.val[name])) \cup {"mips"}
    ELSE {"amd64"}

Cmd(sub, distro, host_arch, client_arch, tag) ==
    [sub |-> sub, distro |-> distro, host_arch |-> host_arch,
     client_arch |-> client_arch, tag |-> tag]
NoCmd == Cmd("", <<>>, "", "", "")
NoCtx == [d |-> [cls |-> "", name |-> <<>>, id |-> 0], kwargs |-> EmptyDict]
NoOut == [state |-> "idle", err |-> "", val |-> EmptyDict]
NoLook == [asked |-> FALSE, name |-> <<>>, err |-> "", val |-> NoneV,
           reg_before |-> EmptyRegistry]

CliIdle ==
    /\ fs = EmptyFS /\ before = EmptyFS /\ cmd = NoCmd /\ calls = <<>>
    /\ result = ""
CtxIdle == ctxIn = NoCtx /\ ctxOut = NoOut
RegistryLoaded ==
    /\ registry = ModuleRegistry
    /\ history = RegistryValues(ModuleRegistry)
    /\ looked = NoLook

\* main(): one command line run to its end.  r = [err, calls, fs]
Ran(c, r) ==
    /\ before' = fs
    /\ fs' = r.fs
    /\ cmd' = c
    /\ calls' = r.calls
    /\ result' = r.err
    /\ UNCHANGED <<ctxIn, ctxOut, registry, history, looked>>

\* argparse's type=Distro.get refusing the name
BadDistro(f) == [err |-> "SystemExit", calls |-> <<>>, fs |-> f]
NoCalls(r) == [err |-> r.err, calls |-> <<>>, fs |-> r.fs]

CmdListDistros ==
    /\ Ran(Cmd("list-distros", <<>>, "", "", ""),
           [err |-> "", calls |-> <<Event("print", registry.keys, 0)>>, fs |-> fs])

CmdListHostArchs ==
    \E name \in DistroArgs :
        LET g == Distro_get(registry, name) IN
        /\ Ran(Cmd("list-host-archs", name, "", "", ""),
               IF g.err # "" THEN BadDistro(fs)
               ELSE [err |-> "", fs |-> fs,
                     calls |-> <<Event("print",
                                   [i \in 1..Len(host_archs(g.val)) |->
                                       <<host_archs(g.val)[i]>>], 0)>>])

CmdListClientArchs ==
    \E name \in DistroArgs :
        LET g == Distro_get(registry, name) IN
        /\ Ran(Cmd("list-client-archs", name, "", "", ""),
               IF g.err # "" THEN BadDistro(fs)
               ELSE [err |-> "", fs |-> fs,
                     calls |-> <<Event("print",
                                   [i \in 1..Len(client_archs(g.val)) |->
                                       <<client_archs(g.val)[i]>>], 0)>>])

CmdRender ==
    \E name \in DistroArgs, tag \in Tags :
        LET g == Distro_get(registry, name) IN
        /\ Ran(Cmd("render", name, "", "", tag),
               IF g.err # "" THEN BadDistro(fs)
               ELSE NoCalls(Render(g.val, [tag |-> S(tag)], fs)))

CmdRenderAll ==
    \E tag \in Tags :
        /\ Ran(Cmd("render-all", <<>>, "", "", tag),
               NoCalls(render_from(RegistryValues(registry), tag, fs, 1)))

CmdClean ==
    /\ Ran(Cmd("clean", <<>>, "", "", ""), NoCalls(clean_all(registry, fs)))

\* build-host: Distro.build_host(host_arch, tag=tag)
CmdBuildHost ==
    /\ cmd = NoCmd
    /\ \E name \in DistroArgs, tag \in Tags :
         LET g == Distro_get(registry, name)
             d == g.val
             context == get_template_context(d, [tag |-> S(tag)])
         IN
         \E r \in {IF g.err # "" \/ context.err # "" THEN BadDistro(fs)
                   ELSE Render(d, context.val, fs)},
            host_arch \in ArchArgs(name), qenv \in QemuEnvs, env \in BuildEnvs :
            LET q == configure_qemu(qenv)
                image == ImageName("host", context.val, host_arch)
                dockerfile == PathJoin(out_path(d),
                                 <<"host", "/", "Dockerfile.">> \o Tok(host_arch))
                e == PullAndBuild(env, image,
                        PathJoin(out_path(d), <<"host", "/", "build-context">>),
                        dockerfile)
            IN  Ran(Cmd("build-host", name, host_arch, "", tag),
                    IF g.err # "" THEN BadDistro(fs)
                    ELSE IF q.err # "" THEN [err |-> q.err, calls |-> q.calls, fs |-> fs]
                    ELSE IF context.err # ""
                    THEN [err |-> context.err, calls |-> q.calls, fs |-> fs]
                    ELSE AfterRender(d, r, q.calls, e))

\* build-client: Distro.build_client(client_arch, tag=tag)
CmdBuildClient ==
    /\ cmd = NoCmd
    /\ \E name \in DistroArgs, tag \in Tags : \E client_arch \in ArchArgs(name) :
         LET g == Distro_get(registry, name)
             d == g.val
             context == get_template_context(d, [client_arch |-> S(client_arch),
                                                 tag |-> S(tag)])
         IN
         \E r \in {IF g.err # "" \/ context.err # "" THEN BadDistro(fs)
                   ELSE Render(d, context.val, fs)},
            qenv \in QemuEnvs, env \in BuildEnvs :
            LET q == configure_qemu(qenv)
                image == ImageName("client", context.val, client_arch)
                dockerfile == PathJoin(out_path(d),
                                 <<"client", "/", "Dockerfile.">> \o Tok(client_arch))
                e == PullAndBuild(env, image,
                        PathJoin(out_path(d), <<"client", "/", "build-context">>),
                        dockerfile)
            IN  Ran(Cmd("build-client", name, "", client_arch, tag),
                    IF g.err # "" THEN BadDistro(fs)
                    ELSE IF q.err # "" THEN [err |-> q.err, calls |-> q.calls, fs |-> fs]
                    ELSE IF context.err # ""
                    THEN [err |-> context.err, calls |-> q.calls, fs |-> fs]
                    ELSE AfterRender(d, r, q.calls, e))

\* test: Distro.test(host_arch, client_arch, tag=tag)
CmdTest ==
    /\ cmd = NoCmd
    /\ \E name \in DistroArgs, tag \in Tags :
         LET g == Distro_get(registry, name)
             d == g.val
         IN
         \E r \in {IF g.err # "" THEN BadDistro(fs) ELSE Render(d, [tag |-> S(tag)], fs)},
            host_arch \in ArchArgs(name), client_arch \in ArchArgs(name),
            env \in TestEnvs :
            LET docker_compose_file ==
                    docker_compose_file_path(d, host_arch, client_arch)
            IN  Ran(Cmd("test", name, host_arch, client_arch, tag),
                    IF g.err # "" THEN BadDistro(fs)
                    ELSE AfterRender(d, r, <<>>, UpSleepRun(env, docker_compose_file)))


\* consecutive runs of the commands that only write and remove files
Init == CliIdle /\ CtxIdle /\ RegistryLoaded
Next ==
    \/ CmdListDistros
    \/ CmdListHostArchs
    \/ CmdListClientArchs
    \/ CmdRender
    \/ CmdRenderAll
    \/ CmdClean
Spec == Init /\ [][Next]_vars

\* the trees a run can find: none, or what an earlier render left
StartTrees ==
    {EmptyFS} \cup {Render(ModuleRegistry.val[n], [tag |-> S(t)], EmptyFS).fs :
                       n \in KnownNames, t \in Tags}

\* one run of a command that drives the container engine
InitBuild ==
    /\ fs \in StartTrees /\ before = fs /\ cmd = NoCmd /\ calls = <<>> /\ result = ""
    /\ CtxIdle /\ RegistryLoaded
NextBuild ==
    \/ CmdBuildHost
    \/ CmdBuildClient
    \/ CmdTest
SpecBuild == InitBuild /\ [][NextBuild]_vars

\* ------------------------------------------ get_template_context, alone
CtxArchs == AllArchs \cup {"mips", ""}
HostKw == {EmptyDict} \cup {[host_arch |-> S(a)] : a \in CtxArchs}
ClientKw == {EmptyDict} \cup {[client_arch |-> S(a)] : a \in CtxArchs}
TagKw == {EmptyDict, [tag |-> NoneV], [tag |-> S("")], [tag |-> S("v1")]}
ExtraKw ==
    {EmptyDict, [host_port |-> Num(1)], [compiler_path_part |-> S("/opt/bin:")],
     [distro |-> S("gentoo"), distro_slug |-> S("Gentoo")]}

InitCtx ==
    /\ CliIdle /\ RegistryLoaded
    /\ ctxOut = NoOut
    /\ \E d \in Range(RegistryValues(ModuleRegistry)),
          h \in HostKw, c \in ClientKw, t \in TagKw, x \in ExtraKw :
          ctxIn = [d |-> d, kwargs |-> Update(Update(Update(x, t), h), c)]

\* self.get_template_context(**kwargs)
BuildContext ==
    /\ ctxOut.state = "idle"
    /\ LET r == get_template_context(ctxIn.d, ctxIn.kwargs) IN
       ctxOut' = [state |-> "done", err |-> r.err,
                  val |-> IF r.err = "" THEN r.val ELSE EmptyDict]
    /\ UNCHANGED <<fs, before, cmd, calls, result, ctxIn, registry, history, looked>>

NextCtx == BuildContext
SpecCtx == InitCtx /\ [][NextCtx]_vars

\* -------------------------------------------------- the registry, alone
RegNames == {<<"debian", ":", "buster">>, <<"archlinux">>, <<"Alpine">>}
LookNames == RegNames \cup {<<"ubuntu">>}
Classes == {"DebianLike", "ArchLinuxLike"}

\* SomeClass(name)
Register ==
    /\ Len(history) < Len(RegistryValues(ModuleRegistry)) + MaxRegistrations
    /\ \E cls \in Classes, name \in RegNames :
         LET id == Len(history) + 1 IN
         /\ registry' = Distro__init__(registry, cls, name, id)
         /\ history' = Append(history, [cls |-> cls, name |-> name, id |-> id])
    /\ looked' = NoLook
    /\ UNCHANGED <<fs, before, cmd, calls, result, ctxIn, ctxOut>>

\* Distro.get(name)
LookUp ==
    /\ \E name \in LookNames :
         LET g == Distro_get(registry, name) IN
         /\ looked' = [asked |-> TRUE, name |-> name, err |-> g.err, val |-> g.val,
                       reg_before |-> registry]
         /\ registry' = g.reg
    /\ UNCHANGED <<fs, before, cmd, calls, result, ctxIn, ctxOut, history>>

NextRegistry == Register \/ LookUp
SpecRegistry == Init /\ [][NextRegistry]_vars

\* ================================================================ claims
Registered(name) == name \in DOMAIN registry.val
TheDistro == registry.val[cmd.distro]
Ops == [i \in 1..Len(calls) |-> calls[i].op]
At(op) == {i \in 1..Len(calls) : calls[i].op = op}
EngineOps == {"which", "images", "run", "pull", "build", "up", "compose_run"}
NoEngineFailure == \A i \in 1..Len(calls) : calls[i].op \in EngineOps => calls[i].rc = 0
\* '<namespace>/distcc-cross-compiler-<role>-<slug>:<tag>-<arch>'
ClaimedImage(role, arch) ==
    <<"elijahru/distcc-cross-compiler-", role, "-">> \o slugify(cmd.distro)
    \o <<":", cmd.tag, "-", arch>>
\* '<slug>/docker-compose.<slug>.host-<H>.client-<C>.yml'
ClaimedComposeFile(name, h, c) ==
    slugify(name) \o <<"/", "docker-compose.">> \o slugify(name)
    \o <<".host-", h, ".client-", c, ".yml">>

\* C1: build_client(a, tag) for a client architecture a of a registered
\* distribution, with the emulation layer there and no engine call failing,
\* performs a render of all artifacts, then one pull of the client image, then
\* one build of that image from client/Dockerfile.<a>, and returns.
C1_BuildClientReachesBuild ==
    (/\ cmd.sub = "build-client"
     /\ Registered(cmd.distro)
     /\ cmd.client_arch \in Range(client_archs(TheDistro))
     /\ NoEngineFailure)
    => LET image == ClaimedImage("client", cmd.client_arch)
           n == Len(calls)
       IN  /\ n >= 3
           /\ calls[n - 2] = Event("render", <<slugify(cmd.distro)>>, 0)
           /\ calls[n - 1] = Event("pull", <<image>>, 0)
           /\ calls[n].op = "build"
           /\ calls[n].args[2] = slugify(cmd.distro)
                                 \o <<"/", "client", "/", "Dockerfile.", cmd.client_arch>>
           /\ calls[n].args[3] = image
           /\ At("render") = {n - 2} /\ At("pull") = {n - 1} /\ At("build") = {n}
           /\ result = ""

\* C2: build_host invokes the engine build of the host image exactly when
\* the pull of that image before it succeeded or ended with exit status 1; a
\* pull ending with any other status ends the command in error with no
\* build; no build comes before the pull.
C2_HostBuildIffPullTolerated ==
    (cmd.sub = "build-host" /\ Registered(cmd.distro))
    => LET image == ClaimedImage("host", cmd.host_arch) IN
       /\ Cardinality(At("pull")) <= 1 /\ Cardinality(At("build")) <= 1
       /\ (At("build") # {}) <=> (\E i \in At("pull") : calls[i].rc \in {0, 1})
       /\ \A i \in At("pull") : calls[i].args = <<image>>
       /\ \A j \in At("build") :
             /\ calls[j].args[3] = image
             /\ \E i \in At("pull") : i < j
       /\ (\E i \in At("pull") : calls[i].rc \notin {0, 1})
             => (result # "" /\ At("build") = {})

C2_Witness ==
    /\ cmd.sub = "build-host"
    /\ Registered(cmd.distro)
    /\ cmd.host_arch \in Range(host_archs(TheDistro))
    /\ \E i \in At("pull") : calls[i].rc = 1
    /\ At("build") # {}
    /\ result = ""

\* C8: the test command renders, brings the host service up from the compose
\* file of its (host_arch, client_arch) pair, waits the settle interval, then
\* runs the client service, in that order; the client service runs only after
\* a render and an `up` that succeeded; the command succeeds exactly when the
\* client run reports success.
C8_TestOrderAndVerdict ==
    (cmd.sub = "test" /\ Registered(cmd.distro))
    => LET file == ClaimedComposeFile(cmd.distro, cmd.host_arch, cmd.client_arch)
           n == Len(calls)
       IN  /\ Ops \in {<<"render">>, <<"render", "up">>,
                       <<"render", "up", "sleep", "compose_run">>}
           /\ n >= 2 => /\ calls[1].rc = 0
                        /\ calls[2].args = <<file, <<"distcc-cross-compiler-host">>>>
           /\ n = 4 => /\ calls[2].rc = 0
                       /\ calls[3].args = <<<<ToString(SettleSeconds)>>>>
                       /\ calls[4].args = <<file, <<"distcc-cross-compiler-client">>>>
           /\ (result = "") <=> (n = 4 /\ calls[4].rc = 0)

C8_Witness ==
    /\ cmd.sub = "test"
    /\ Registered(cmd.distro)
    /\ cmd.host_arch # cmd.client_arch
    /\ Ops = <<"render", "up", "sleep", "compose_run">>
    /\ result = ""

\* C3: rendering the same (distribution, tag) twice in a row from an empty
\* output tree: the second render returns without error and leaves the files
\* and their contents as the first left them.
C3_RenderTwiceSame ==
    [][(/\ cmd.sub = "render" /\ Registered(cmd.distro) /\ before = EmptyFS
        /\ cmd' = cmd)
       => (result' = "" /\ fs'.files = fs.files)]_vars

\* the files the claim lists for distribution d
ClaimedPlainFiles(d) ==
    {out_path(d) \o <<"/", "host", "/", "Dockerfile.", h>> : h \in Range(host_archs(d))}
    \cup {out_path(d) \o <<"/", "client", "/", "Dockerfile.", c>> :
             c \in Range(client_archs(d))}
    \cup {ClaimedComposeFile(d.name, h, c) :
             h \in Range(host_archs(d)), c \in Range(client_archs(d))}
IsServiceFile(p) == \E i \in 1..Len(p) : p[i] = "distccd.host-"
\* <<H, C>> of a path that holds 'distccd.host-<H>.client-<C>'
ServicePair(p) ==
    LET i == CHOOSE k \in 1..Len(p) : p[k] = "distccd.host-" IN <<p[i + 1], p[i + 3]>>
CompilerPairs(d) ==
    {<<h, c>> \in Range(host_archs(d)) \X Range(client_archs(d)) :
        h \in DOMAIN compilers_by_host_arch(d)
        /\ c \in Range(compilers_by_host_arch(d)[h])}

\* C4: render of a registered distribution from an empty output tree returns
\* and leaves exactly one host Dockerfile per host architecture, one client
\* Dockerfile per client architecture, one compose file per pair, and
\* distccd.host-<H>.client-<C> service files for the pairs with C in
\* compilers_by_host_arch[H] and for no other pair.
C4_RenderLeavesExactly ==
    (cmd.sub = "render" /\ Registered(cmd.distro) /\ before = EmptyFS)
    => /\ result = ""
       /\ {p \in DOMAIN fs.files : ~IsServiceFile(p)} = ClaimedPlainFiles(TheDistro)
       /\ {ServicePair(p) : p \in {q \in DOMAIN fs.files : IsServiceFile(q)}}
             = CompilerPairs(TheDistro)
       /\ \A p \in DOMAIN fs.files : Under(out_path(TheDistro), p)

\* C7: once the clean command has run, no registered distribution's output
\* directory exists, whatever directories existed before.
C7_CleanRemovesAll ==
    cmd.sub = "clean"
    => \A n \in DOMAIN registry.val : out_path(registry.val[n]) \notin fs.dirs

ArchSet(d) == Range(host_archs(d)) \cup Range(client_archs(d))
\* the key sets of the per-architecture tables of d's class
TableKeysOf(d) ==
    IF IsDebian(d)
    THEN {DOMAIN DebianLike_ports_by_arch, DOMAIN DebianLike_toolchains_by_arch,
          DOMAIN DebianLike_packages_by_arch, DOMAIN DebianLike_flags_by_arch}
    ELSE {DOMAIN ArchLinuxLike_ports_by_arch, DOMAIN ArchLinuxLike_toolchains_by_arch,
          DOMAIN ArchLinuxLike_images_by_arch}
\* ... of the tables a render reads with [client_arch]
ClientTableKeysOf(d) ==
    IF IsDebian(d)
    THEN {DOMAIN DebianLike_ports_by_arch, DOMAIN DebianLike_flags_by_arch}
    ELSE {DOMAIN ArchLinuxLike_ports_by_arch, DOMAIN ArchLinuxLike_images_by_arch}
TablesConsistent(d) ==
    /\ \A keys \in TableKeysOf(d) : keys \subseteq ArchSet(d)
    /\ DOMAIN compilers_by_host_arch(d) \subseteq Range(host_archs(d))
    /\ \A h \in DOMAIN compilers_by_host_arch(d) :
          Range(compilers_by_host_arch(d)[h]) \subseteq Range(client_archs(d))
    /\ \A keys \in ClientTableKeysOf(d) : Range(client_archs(d)) \subseteq keys

\* C9: every architecture a per-architecture table of a registered
\* distribution names is one of its host or client architectures, every
\* client architecture has its port (and flag or image), and no render fails
\* on a missing table entry.
C9_TablesCoverArchs ==
    /\ \A n \in DOMAIN registry.val : TablesConsistent(registry.val[n])
    /\ cmd.sub \in {"render", "render-all"} => result # "KeyError"

C9_Witness ==
    /\ cmd.sub = "render"
    /\ cmd.distro = <<"debian", ":", "buster">>
    /\ result = ""
    /\ ClaimedComposeFile(cmd.distro, "amd64", "s390x") \in DOMAIN fs.files

\* s has sub as a run of consecutive tokens
Contains(s, sub) ==
    \E i \in 0..(Len(s) - Len(sub)) : SubSeq(s, i + 1, i + Len(sub)) = sub
CtxDone == ctxOut.state = "done"
InArch(key) == Get(ctxIn.kwargs, key)
\* the request names host architecture X and client architecture Y of its distro
CtxPair(X, Y) ==
    /\ InArch("host_arch") = S(X) /\ X \in Range(host_archs(ctxIn.d))
    /\ InArch("client_arch") = S(Y) /\ Y \in Range(client_archs(ctxIn.d))

\* C5: for host architecture X and client architecture Y of a registered
\* distribution, context building returns; compiler_path_part is '' when
\* X = Y, and otherwise a non-empty string holding toolchains_by_arch[Y]
\* followed by the segment 'bin:'.
C5_CompilerPathPart ==
    \A X \in AllArchs, Y \in AllArchs :
        (CtxDone /\ CtxPair(X, Y))
        => /\ ctxOut.err = ""
           /\ "compiler_path_part" \in DOMAIN ctxOut.val
           /\ LET part == ctxOut.val["compiler_path_part"] IN
              /\ part.t = "str"
              /\ X = Y => part.s = <<>>
              /\ X # Y =>
                    /\ part.s # <<>>
                    /\ Y \in DOMAIN toolchains_by_arch(ctxIn.d)
                    /\ Contains(part.s, toolchains_by_arch(ctxIn.d)[Y] \o <<"/", "bin:">>)

C5_Witness ==
    /\ CtxDone /\ CtxPair("amd64", "arm32v6")
    /\ ~IsDebian(ctxIn.d)
    /\ ctxOut.val["compiler_path_part"]
          = Str(<<"/", "toolchains", "/", "x-tools6h", "/",
                  "arm-unknown-linux-gnueabihf", "/", "bin:">>)

\* C10: a context built with a client_arch has host_port equal to
\* ports_by_arch[client_arch], whatever host_arch is (debian:buster, host
\* amd64, client i386: 3603); with a client_arch that has no port, context
\* building raises instead of returning a context.
C10_HostPort ==
    (CtxDone /\ Truthy(InArch("client_arch")))
    => LET client_arch == InArch("client_arch")
           ports == ports_by_arch(ctxIn.d)
       IN  /\ ctxOut.err = ""
                => /\ HasKey(ports, client_arch)
                   /\ ctxOut.val["host_port"] = Num(ports[client_arch.s[1]])
           /\ ~HasKey(ports, client_arch) => ctxOut.err = "KeyError"
           /\ (IsDebian(ctxIn.d) /\ CtxPair("amd64", "i386"))
                => (ctxOut.err = "" /\ ctxOut.val["host_port"] = Num(3603))

C10_Witness ==
    /\ CtxDone
    /\ InArch("client_arch") = S("mips")
    /\ InArch("host_arch") = S("amd64")
    /\ ctxOut.err = "KeyError"

\* C11: every context get_template_context returns holds distro equal to the
\* distribution's own name and distro_slug equal to the slug of that name,
\* whatever the caller supplied under those keys, and a non-empty tag: the
\* supplied tag when it is non-empty, otherwise 'devel'; a key both the base
\* method and the family method set (toolchain, for ArchLinuxLike) holds the
\* family's value.
C11_NameSlugTag ==
    (CtxDone /\ ctxOut.err = "")
    => LET d == ctxIn.d
           supplied == Get(ctxIn.kwargs, "tag")
           client_arch == InArch("client_arch")
       IN  /\ {"distro", "distro_slug", "tag"} \subseteq DOMAIN ctxOut.val
           /\ ctxOut.val["distro"] = Str(d.name)
           /\ ctxOut.val["distro_slug"] = Str(slugify(d.name))
           /\ d.name = <<"debian", ":", "buster">>
                 => ctxOut.val["distro_slug"] = Str(<<"debian", "-", "buster">>)
           /\ d.name = <<"archlinux">> => ctxOut.val["distro_slug"] = Str(<<"archlinux">>)
           /\ ctxOut.val["tag"].t = "str" /\ ctxOut.val["tag"].s # <<>>
           /\ ctxOut.val["tag"] = IF Truthy(supplied) THEN supplied ELSE S("devel")
           /\ (~IsDebian(d) /\ Truthy(client_arch))
                 => /\ "toolchain" \in DOMAIN ctxOut.val
                    /\ ctxOut.val["toolchain"]
                          = TableGet(ArchLinuxLike_toolchains_by_arch, client_arch)

C11_Witness ==
    /\ CtxDone /\ ctxOut.err = ""
    /\ Get(ctxIn.kwargs, "distro") = S("gentoo")
    /\ Get(ctxIn.kwargs, "tag") = S("")
    /\ InArch("client_arch") = S("arm32v7")
    /\ ctxOut.val["distro"] = Str(ctxIn.d.name)
    /\ ctxOut.val["tag"] = S("devel")

\* the names a sequence of registrations holds, each at its first place
RECURSIVE FirstNames(_, _)
FirstNames(h, i) ==
    IF i > Len(h) THEN <<>>
    ELSE (IF \E j \in 1..(i - 1) : h[j].name = h[i].name THEN <<>> ELSE <<h[i].name>>)
         \o FirstNames(h, i + 1)
\* the names a message lists after 'choose from', split at ', '
RECURSIVE SplitNames(_, _, _)
SplitNames(msg, i, cur) ==
    IF i > Len(msg) THEN (IF cur = <<>> THEN <<>> ELSE <<cur>>)
    ELSE IF msg[i] = ", " THEN <<cur>> \o SplitNames(msg, i + 1, <<>>)
    ELSE SplitNames(msg, i + 1, Append(cur, msg[i]))
ListedNames(msg) ==
    LET k == CHOOSE i \in 1..Len(msg) : msg[i] = ", choose from " IN
    SplitNames(msg, k + 1, <<>>)
LastNamed(h, name) ==
    h[CHOOSE i \in 1..Len(h) :
         h[i].name = name /\ \A j \in (i + 1)..Len(h) : h[j].name # name]

\* C6: after any registrations, Distro.get of a name never registered raises
\* with a message that lists every registered name in registration order and
\* leaves the registry as it was; Distro.get of a registered name returns the
\* object registered last under that name.
C6_Lookup ==
    looked.asked
    => /\ registry = looked.reg_before
       /\ IF \E i \in 1..Len(history) : history[i].name = looked.name
          THEN looked.err = "" /\ looked.val = LastNamed(history, looked.name)
          ELSE /\ looked.err = "ValueError"
               /\ \E i \in 1..Len(looked.val.s) : looked.val.s[i] = ", choose from "
               /\ ListedNames(looked.val.s) = FirstNames(history, 1)

C6_Witness ==
    /\ looked.asked
    /\ looked.err = "ValueError"
    /\ Len(history) = 5
    /\ Len(registry.keys) = 3
    /\ history[5].name = history[1].name
====
